---- MODULE Spec2Model ----
(***************************************************************************)
(* Authentication and session-lifecycle core of quote-service:             *)
(* AuthService (register / login / refreshToken / logout /                 *)
(* validateAccessToken), UserService (identity store and lockout policy),  *)
(* JWTUtils (token codec), PasswordUtils (hasher) and the REST / GraphQL   *)
(* entry points that call them.                                            *)
(*                                                                         *)
(* Time is counted in minutes.  Strings that the code inspects character   *)
(* by character (passwords, the TTL string) are sequences of one-character *)
(* strings.                                                                *)
(***************************************************************************)
EXTENDS Integers, Sequences, FiniteSets, TLC

VARIABLES
    env,            \* process.env as read by JWTUtils when the class is loaded
    users,          \* the "users" collection: the set of its documents
    tokenVersions,  \* AuthService.tokenVersions of the instance built by authRoutes
    now,            \* the wall clock (Date.now()), in minutes
    held,           \* the tokens of one response, kept by a client
    revoked,        \* history: held refresh tokens whose owner has logged out since
    inflight,       \* the requests that are suspended at an await, by slot
    bumps,          \* history: the logout calls completed, by identity
    failed,         \* history: the password checks that failed, by identity
    indexes         \* the unique indexes of the collection that are built

vars == <<env, users, tokenVersions, now, held, revoked, inflight, bumps, failed,
          indexes>>

\* what only the interleaved handlers below touch
conc == <<inflight, bumps, failed, indexes>>

-----------------------------------------------------------------------------
(* Bounds of the model *)

MaxTicks == 3       \* the clock advances at most this many times
MaxGen == 2         \* at most this many logouts per identity

TickStep == 15      \* minutes by which the clock advances at a time

MaxInflight == 2    \* at most this many requests are suspended at a time
MaxFailedChecks == 5    \* failed password checks per identity while requests overlap

\* uuidv4() values, in the order in which createUser draws them
Ids == <<"u1", "u2">>
IdSet == {Ids[i] : i \in 1..Len(Ids)}

Emails == {"a@x.com", "b@x.com"}

\* the (email, username) pairs that registrations are tried with
RegIdentities == {[email |-> "a@x.com", username |-> "alice"],
                  [email |-> "b@x.com", username |-> "bob"],
                  [email |-> "a@x.com", username |-> "bob"]}

-----------------------------------------------------------------------------
(* Passwords, as sequences of characters *)

Lower == {"a","b","c","d","e","f","g","h","i","j","k","l","m",
          "n","o","p","q","r","s","t","u","v","w","x","y","z"}
Upper == {"A","B","C","D","E","F","G","H","I","J","K","L","M",
          "N","O","P","Q","R","S","T","U","V","W","X","Y","Z"}
Digit == {"0","1","2","3","4","5","6","7","8","9"}
Special == {"@","$","!","%","*","?","&"}

Strong == <<"A","b","c","d","e","f","1","!">>
Weak == <<"p","a","s","s","w","o","r","d","1","2","3">>
Short == <<"A","b","1","!">>
NoSpecial == <<"A","b","c","d","e","f","g","1">>

\* the passwords tried at registration
Passwords == {Strong, Weak, Short, NoSpecial}
\* the passwords tried at login
LoginPasswords == {Strong, Weak}

Chars(s) == {s[i] : i \in 1..Len(s)}

-----------------------------------------------------------------------------
(* PasswordUtils: bcrypt is a black box.  The digest is a tagged copy of   *)
(* the plaintext, so that compare succeeds exactly on the hashed password. *)

hashPassword(password) == <<"bcrypt", password>>

comparePassword(password, hashedPassword) ==
    hashedPassword = hashPassword(password)

-----------------------------------------------------------------------------
(* Request validation *)

\* CreateUserSchema.password: min(8) and the regex
\* ^(?=.*[a-z])(?=.*[A-Z])(?=.*\d)(?=.*[@$!%*?&])[A-Za-z\d@$!%*?&]
CreateUserSchemaPassword(password) ==
    /\ Len(password) >= 8
    /\ Chars(password) \cap Lower # {}
    /\ Chars(password) \cap Upper # {}
    /\ Chars(password) \cap Digit # {}
    /\ Chars(password) \cap Special # {}
    /\ password[1] \in Lower \cup Upper \cup Digit \cup Special

\* the TypeBox body schema of POST /auth/register: password minLength 8
RegisterBodySchema(body) == Len(body.password) >= 8

-----------------------------------------------------------------------------
(* JWTUtils and the jsonwebtoken calls it makes.  A token is its payload   *)
(* plus the key it was signed with; a signature verifies exactly under the *)
(* signing key.                                                            *)

DefaultAccessSecret == "your-super-secret-access-key"
DefaultRefreshSecret == "your-super-secret-refresh-key"
DefaultAccessExpiry == <<"1","5","m">>

\* process.env.X || d: an unset variable (and an empty one) gives the default
OrDefault(v, d) == IF Len(v) = 0 THEN d ELSE v

ACCESS_TOKEN_SECRET(e) == OrDefault(e.JWT_ACCESS_SECRET, DefaultAccessSecret)
REFRESH_TOKEN_SECRET(e) == OrDefault(e.JWT_REFRESH_SECRET, DefaultRefreshSecret)
ACCESS_TOKEN_EXPIRY(e) == OrDefault(e.JWT_ACCESS_EXPIRY, DefaultAccessExpiry)

\* jwt.sign(payload, secret, {issuer, audience}): iat is stamped; exp is set
\* only when an expiresIn option is passed
JwtSign(payload, secret, options, t) ==
    [payload |->
        (IF "expiresIn" \in DOMAIN options
         THEN [exp |-> t + options.expiresIn] ELSE <<>>)
        @@ [iat |-> t, iss |-> options.issuer, aud |-> options.audience]
        @@ payload,
     sig |-> secret]

\* jwt.verify(token, secret, {issuer, audience}): TRUE when it returns the
\* payload, FALSE when it throws
JwtVerify(token, secret, options, t) ==
    /\ token.sig = secret
    /\ token.payload.iss = options.issuer
    /\ token.payload.aud = options.audience
    /\ ("exp" \in DOMAIN token.payload => t < token.payload.exp)

AccessSignOptions == [issuer |-> "quote-service", audience |-> "quote-service-users"]
RefreshSignOptions == [issuer |-> "quote-service", audience |-> "quote-service-users"]
AccessVerifyOptions == [issuer |-> "quote-service", audience |-> "quote-service-users"]
RefreshVerifyOptions == [issuer |-> "quote-service", audience |-> "quote-service-users"]

generateAccessToken(e, payload, t) ==
    JwtSign(payload, ACCESS_TOKEN_SECRET(e), AccessSignOptions, t)

\* mutant: the refresh token is signed with a lifetime of 15 minutes
generateRefreshToken_Expiring(e, payload, t) ==
    JwtSign(payload, REFRESH_TOKEN_SECRET(e),
            [expiresIn |-> 15] @@ RefreshSignOptions, t)

generateRefreshToken(e, payload, t) ==
    JwtSign(payload, REFRESH_TOKEN_SECRET(e), RefreshSignOptions, t)

\* {payload}, or {} for the thrown "Invalid or expired access token"
verifyAccessToken(e, token, t) ==
    IF JwtVerify(token, ACCESS_TOKEN_SECRET(e), AccessVerifyOptions, t)
    THEN {token.payload} ELSE {}

\* {payload}, or {} for the thrown "Invalid or expired refresh token"
verifyRefreshToken(e, token, t) ==
    IF JwtVerify(token, REFRESH_TOKEN_SECRET(e), RefreshVerifyOptions, t)
    THEN {token.payload} ELSE {}

DigitValue(c) ==
    CASE c = "0" -> 0 [] c = "1" -> 1 [] c = "2" -> 2 [] c = "3" -> 3
      [] c = "4" -> 4 [] c = "5" -> 5 [] c = "6" -> 6 [] c = "7" -> 7
      [] c = "8" -> 8 [] c = "9" -> 9

RECURSIVE ParseIntFrom(_, _, _)
ParseIntFrom(s, i, acc) ==
    IF i > Len(s) \/ s[i] \notin Digit THEN acc
    ELSE ParseIntFrom(s, i + 1, 10 * acc + DigitValue(s[i]))

\* parseInt(s): <<n>> for leading digits n, <<>> for NaN
ParseInt(s) ==
    IF Len(s) = 0 \/ s[1] \notin Digit THEN <<>> ELSE <<ParseIntFrom(s, 1, 0)>>

EndsWith(s, c) == Len(s) > 0 /\ s[Len(s)] = c

\* n * k, NaN staying NaN
Times(n, k) == IF n = <<>> THEN <<>> ELSE <<n[1] * k>>

\* seconds: <<n>>, or <<>> for NaN
getAccessTokenExpiryTime(e) ==
    LET expiry == ACCESS_TOKEN_EXPIRY(e) IN
    IF EndsWith(expiry, "m") THEN Times(ParseInt(expiry), 60)
    ELSE IF EndsWith(expiry, "h") THEN Times(ParseInt(expiry), 60 * 60)
    ELSE IF EndsWith(expiry, "d") THEN Times(ParseInt(expiry), 24 * 60 * 60)
    ELSE ParseInt(expiry)

-----------------------------------------------------------------------------
(* UserService over the "users" collection.  An optional field is <<>>     *)
(* when it is absent (or null) and <<v>> when it holds v; a lookup gives   *)
(* the set of the documents found, {} for null.                            *)

maxAttempts == 5
lockTime == 30      \* minutes

IdIndex(id) == CHOOSE i \in 1..Len(Ids) : Ids[i] = id

\* the value uuidv4() returns for the next document
NextId(docs) == Ids[Cardinality(docs) + 1]

getUserById(docs, id) == {u \in docs : u.id = id}

getUserByEmail(docs, email) == {u \in docs : u.email = email}

\* findOneAndUpdate({id}, {$set: updateData}); an undefined value is stored
\* as null, which reads as absent
updateUser(docs, id, updateData) ==
    {IF u.id = id THEN updateData @@ u ELSE u : u \in docs}

\* mutant: only the email is looked up
createUser_EmailOnly(docs, userData, t) ==
    LET matches == {u \in docs : u.email = userData.email}
        user == [id |-> NextId(docs),
                 email |-> userData.email,
                 username |-> userData.username,
                 password |-> hashPassword(userData.password),
                 role |-> "user",
                 isActive |-> TRUE,
                 emailVerificationToken |-> "email-verification-token",
                 loginAttempts |-> 0,
                 lockUntil |-> <<>>,
                 lastLoginAt |-> <<>>]
    IN  IF matches # {}
        THEN [err |-> "User with this email already exists",
              users |-> docs, user |-> {}]
        ELSE [err |-> "", users |-> docs \cup {user}, user |-> {user}]

\* [err, users, user]: err is the message thrown, "" when the user is created
createUser(docs, userData, t) ==
    LET matches == {u \in docs : \/ u.email = userData.email
                                 \/ u.username = userData.username}
        \* findOne returns the first match in insertion order
        existingUser == CHOOSE u \in matches :
                            \A v \in matches : IdIndex(u.id) <= IdIndex(v.id)
        user == [id |-> NextId(docs),
                 email |-> userData.email,
                 username |-> userData.username,
                 password |-> hashPassword(userData.password),
                 role |-> "user",
                 isActive |-> TRUE,
                 emailVerificationToken |-> "email-verification-token",
                 loginAttempts |-> 0,
                 lockUntil |-> <<>>,
                 lastLoginAt |-> <<>>]
    IN  IF matches # {} /\ existingUser.email = userData.email
        THEN [err |-> "User with this email already exists",
              users |-> docs, user |-> {}]
        ELSE IF matches # {} /\ existingUser.username = userData.username
        THEN [err |-> "User with this username already exists",
              users |-> docs, user |-> {}]
        ELSE [err |-> "", users |-> docs \cup {user}, user |-> {user}]

\* mutant: the lock is set one attempt late
incrementLoginAttempts_Late(docs, id, t) ==
    LET found == getUserById(docs, id) IN
    IF found = {} THEN docs
    ELSE LET user == CHOOSE u \in found : TRUE
             attempts == user.loginAttempts + 1
             updateDoc == IF attempts > maxAttempts
                          THEN [loginAttempts |-> attempts,
                                lockUntil |-> <<t + lockTime>>]
                          ELSE [loginAttempts |-> attempts]
         IN  updateUser(docs, id, updateDoc)

\* mutant: the update is not restricted to the id
incrementLoginAttempts_All(docs, id, t) ==
    {[loginAttempts |-> u.loginAttempts + 1] @@ u : u \in docs}

incrementLoginAttempts(docs, id, t) ==
    LET found == getUserById(docs, id) IN
    IF found = {} THEN docs
    ELSE LET user == CHOOSE u \in found : TRUE
             attempts == user.loginAttempts + 1
             updateDoc == IF attempts >= maxAttempts
                          THEN [loginAttempts |-> attempts,
                                lockUntil |-> <<t + lockTime>>]
                          ELSE [loginAttempts |-> attempts]
         IN  updateUser(docs, id, updateDoc)

\* mutant: the login time is not stamped
resetLoginAttempts_NoStamp(docs, id, t) ==
    updateUser(docs, id, [loginAttempts |-> 0, lockUntil |-> <<>>])

resetLoginAttempts(docs, id, t) ==
    updateUser(docs, id,
               [loginAttempts |-> 0, lockUntil |-> <<>>, lastLoginAt |-> <<t>>])

\* mutant: the lazy unlock leaves the counter as it is
isAccountLocked_KeepAttempts(docs, user, t) ==
    IF user.lockUntil = <<>> THEN [locked |-> FALSE, users |-> docs]
    ELSE IF user.lockUntil[1] > t THEN [locked |-> TRUE, users |-> docs]
    ELSE [locked |-> FALSE,
          users |-> updateUser(docs, user.id, [lockUntil |-> <<>>])]

\* mutant: an elapsed lock is not cleared
isAccountLocked_NoUnlock(docs, user, t) ==
    IF user.lockUntil = <<>> THEN [locked |-> FALSE, users |-> docs]
    ELSE IF user.lockUntil[1] > t THEN [locked |-> TRUE, users |-> docs]
    ELSE [locked |-> FALSE, users |-> docs]

\* mutant: the comparison with the clock is reversed
isAccountLocked_Reversed(docs, user, t) ==
    IF user.lockUntil = <<>> THEN [locked |-> FALSE, users |-> docs]
    ELSE IF user.lockUntil[1] < t THEN [locked |-> TRUE, users |-> docs]
    ELSE [locked |-> FALSE,
          users |-> updateUser(docs, user.id,
                               [lockUntil |-> <<>>, loginAttempts |-> 0])]

\* [locked, users]: the answer and the collection after the lazy unlock
isAccountLocked(docs, user, t) ==
    IF user.lockUntil = <<>> THEN [locked |-> FALSE, users |-> docs]
    ELSE IF user.lockUntil[1] > t THEN [locked |-> TRUE, users |-> docs]
    ELSE [locked |-> FALSE,
          users |-> updateUser(docs, user.id,
                               [lockUntil |-> <<>>, loginAttempts |-> 0])]

-----------------------------------------------------------------------------
(* AuthService.  tv is the tokenVersions map of the instance the method is *)
(* called on.  Each method gives [err, val, users (, tv)]: err is the      *)
(* message of the Error thrown, "" when the method returns val.            *)

MsgNoUser == "Invalid email or password"         \* thrown when no user has the email
MsgBadPassword_Distinct == "Invalid password"   \* mutant: a message of its own
MsgBadPassword == "Invalid email or password"    \* thrown when the password differs
MsgLocked == "Account is temporarily locked due to too many failed login attempts"
MsgInactive == "Account is deactivated"
MsgInvalidRefresh == "Invalid refresh token"

NewMap == [k \in {} |-> 0]      \* new Map()

\* mutant: an id without an entry has version 1
getTokenVersion_DefaultOne(tv, userId) ==
    IF userId \in DOMAIN tv THEN tv[userId] ELSE 1

getTokenVersion(tv, userId) ==
    IF userId \in DOMAIN tv THEN tv[userId] ELSE 0

\* mutant: the version is stored without the increment
incrementTokenVersion_NoBump(tv, userId) ==
    [k \in DOMAIN tv \cup {userId} |-> getTokenVersion(tv, k)]

\* mutant: the map is rebuilt with the bumped entry only
incrementTokenVersion_Forgetful(tv, userId) ==
    [k \in {userId} |-> getTokenVersion(tv, userId) + 1]

incrementTokenVersion(tv, userId) ==
    LET currentVersion == getTokenVersion(tv, userId) IN
    [k \in DOMAIN tv \cup {userId} |->
        IF k = userId THEN currentVersion + 1 ELSE tv[k]]

\* const {password, emailVerificationToken, passwordResetToken, ...rest} = user
\* mutant: only the password is removed
RemoveSensitive_PasswordOnly(user) ==
    [f \in DOMAIN user \ {"password"} |-> user[f]]

RemoveSensitive(user) ==
    [f \in DOMAIN user \ {"password", "emailVerificationToken",
                          "passwordResetToken"} |-> user[f]]

\* mutant: the role claim is the role of a new identity
AccessPayload_DefaultRole(user) ==
    [userId |-> user.id, email |-> user.email, role |-> "user"]

AccessPayload(user) ==
    [userId |-> user.id, email |-> user.email, role |-> user.role]

\* mutant: the refresh token is stamped with version 0
RefreshPayload_Zero(tv, user) ==
    [userId |-> user.id, tokenVersion |-> 0]

RefreshPayload(tv, user) ==
    [userId |-> user.id, tokenVersion |-> getTokenVersion(tv, user.id)]

AuthResponse(e, tv, user, t) ==
    [user |-> RemoveSensitive(user),
     accessToken |-> generateAccessToken(e, AccessPayload(user), t),
     refreshToken |-> generateRefreshToken(e, RefreshPayload(tv, user), t),
     expiresIn |-> getAccessTokenExpiryTime(e)]

register(e, docs, tv, userData, t) ==
    LET c == createUser(docs, userData, t) IN
    IF c.err # "" THEN [err |-> c.err, val |-> <<>>, users |-> docs]
    ELSE LET user == CHOOSE u \in c.user : TRUE IN
         [err |-> "", val |-> AuthResponse(e, tv, user, t), users |-> c.users]

\* mutant: the password is checked before isActive
login_PasswordFirst(e, docs, tv, credentials, t) ==
    LET found == getUserByEmail(docs, credentials.email) IN
    IF found = {}
    THEN [err |-> MsgNoUser, val |-> <<>>, users |-> docs]
    ELSE
    LET user == CHOOSE u \in found : TRUE
        lk == isAccountLocked(docs, user, t)
    IN  IF lk.locked
        THEN [err |-> MsgLocked, val |-> <<>>, users |-> lk.users]
        ELSE IF ~comparePassword(credentials.password, user.password)
        THEN [err |-> MsgBadPassword, val |-> <<>>,
              users |-> incrementLoginAttempts(lk.users, user.id, t)]
        ELSE IF ~user.isActive
        THEN [err |-> MsgInactive, val |-> <<>>, users |-> lk.users]
        ELSE [err |-> "", val |-> AuthResponse(e, tv, user, t),
              users |-> resetLoginAttempts(lk.users, user.id, t)]

login(e, docs, tv, credentials, t) ==
    LET found == getUserByEmail(docs, credentials.email) IN
    IF found = {}
    THEN [err |-> MsgNoUser, val |-> <<>>, users |-> docs]
    ELSE
    LET user == CHOOSE u \in found : TRUE
        lk == isAccountLocked(docs, user, t)
    IN  IF lk.locked
        THEN [err |-> MsgLocked, val |-> <<>>, users |-> lk.users]
        ELSE IF ~user.isActive
        THEN [err |-> MsgInactive, val |-> <<>>, users |-> lk.users]
        ELSE IF ~comparePassword(credentials.password, user.password)
        THEN [err |-> MsgBadPassword, val |-> <<>>,
              users |-> incrementLoginAttempts(lk.users, user.id, t)]
        ELSE [err |-> "", val |-> AuthResponse(e, tv, user, t),
              users |-> resetLoginAttempts(lk.users, user.id, t)]

refreshToken(e, docs, tv, token, t) ==
    LET verified == verifyRefreshToken(e, token, t) IN
    IF verified = {} THEN [err |-> MsgInvalidRefresh, val |-> <<>>]
    ELSE
    LET payload == CHOOSE p \in verified : TRUE IN
    \* payload.tokenVersion !== currentVersion; undefined differs from any number
    IF \/ "tokenVersion" \notin DOMAIN payload
       \/ payload.tokenVersion # getTokenVersion(tv, payload.userId)
    THEN [err |-> MsgInvalidRefresh, val |-> <<>>]
    ELSE
    LET found == getUserById(docs, payload.userId) IN
    IF found = {} \/ ~(CHOOSE u \in found : TRUE).isActive
    THEN [err |-> MsgInvalidRefresh, val |-> <<>>]
    ELSE LET user == CHOOSE u \in found : TRUE IN
         [err |-> "",
          val |-> [accessToken |->
                       generateAccessToken(e, AccessPayload(user), t),
                   expiresIn |-> getAccessTokenExpiryTime(e)]]

logout(tv, userId) == incrementTokenVersion(tv, userId)

\* mutant: the identity is not checked to be active
validateAccessToken_NoActiveCheck(e, docs, token, t, storeFails) ==
    LET verified == verifyAccessToken(e, token, t) IN
    IF verified = {} THEN {}
    ELSE LET payload == CHOOSE p \in verified : TRUE
             found == getUserById(docs, payload.userId)
         IN  IF storeFails THEN {}
             ELSE IF found = {} THEN {}
             ELSE {payload}

\* {payload}, or {} for null; storeFails: getUserById rejects
validateAccessToken(e, docs, token, t, storeFails) ==
    LET verified == verifyAccessToken(e, token, t) IN
    IF verified = {} THEN {}
    ELSE LET payload == CHOOSE p \in verified : TRUE
             found == getUserById(docs, payload.userId)
         IN  IF storeFails THEN {}
             ELSE IF found = {} \/ ~(CHOOSE u \in found : TRUE).isActive
             THEN {}
             ELSE {payload}

-----------------------------------------------------------------------------
(* The running service.  A request is one step.  The response of a request *)
(* is the value of the AuthService operator above on the state before the  *)
(* step; the step keeps what the handler stores.                           *)

DefaultEnv == [JWT_ACCESS_SECRET |-> "", JWT_REFRESH_SECRET |-> "",
               JWT_ACCESS_EXPIRY |-> <<>>]

\* both secrets set to one value in the environment
SharedSecretEnv == [JWT_ACCESS_SECRET |-> "one-secret",
                    JWT_REFRESH_SECRET |-> "one-secret",
                    JWT_ACCESS_EXPIRY |-> <<>>]

\* a token that was not signed by the service
Forged == [payload |-> [userId |-> "u1", email |-> "a@x.com", role |-> "admin",
                        iat |-> 0, iss |-> "quote-service",
                        aud |-> "quote-service-users"],
           sig |-> "attacker-key"]

\* the tokens a client can present
Presentable == held \cup {Forged}

\* a token made by generateRefreshToken
IsRefreshIssue(token) == "tokenVersion" \in DOMAIN token.payload

Slots == 1..MaxInflight

\* a slot without a request
Idle == [kind |-> "idle", userId |-> "", n |-> 0]

Init ==
    /\ env \in {DefaultEnv, SharedSecretEnv}
    /\ users = {}
    /\ tokenVersions = NewMap
    /\ now = 0
    /\ held = {}
    /\ revoked = {}
    /\ inflight = [s \in Slots |-> Idle]
    /\ bumps = [id \in IdSet |-> 0]
    /\ failed = [id \in IdSet |-> 0]
    /\ indexes = {}

\* the client keeps the tokens of the response r, or goes on with those it has
KeepTokens(r, keep) ==
    /\ held' = IF r.err = "" /\ keep
               THEN {r.val.accessToken, r.val.refreshToken} ELSE held
    /\ revoked' = revoked \cap held'

\* the response of POST /auth/register to body, with the collection after it
RestRegisterResponse(body) ==
    IF ~RegisterBodySchema(body)
    THEN [err |-> "body/password must NOT have fewer than 8 characters",
          val |-> <<>>, users |-> users]
    ELSE IF ~CreateUserSchemaPassword(body.password)
    THEN [err |-> "ZodError", val |-> <<>>, users |-> users]
    ELSE register(env, users, tokenVersions, body, now)

\* POST /auth/register
RestRegister(body, keep) ==
    /\ LET r == RestRegisterResponse(body) IN
       /\ users' = r.users
       /\ KeepTokens(r, keep)
    /\ UNCHANGED <<env, tokenVersions, now, conc>>

\* the response of the GraphQL mutation register, which runs on the
\* AuthService made for the request's context
GraphqlRegisterResponse(input) == register(env, users, NewMap, input, now)

GraphqlRegister(input, keep) ==
    /\ LET r == GraphqlRegisterResponse(input) IN
       /\ users' = r.users
       /\ KeepTokens(r, keep)
    /\ UNCHANGED <<env, tokenVersions, now, conc>>

RestLoginResponse(body) == login(env, users, tokenVersions, body, now)

\* what the handler of POST /auth/login sends
RestLoginReply(body) ==
    LET r == RestLoginResponse(body) IN
    IF r.err = ""
    THEN [status |-> 200, success |-> TRUE, data |-> r.val]
    ELSE [status |-> 401, success |-> FALSE, error |-> r.err,
          code |-> "LOGIN_FAILED"]

\* POST /auth/login
RestLogin(body, keep) ==
    /\ LET r == RestLoginResponse(body) IN
       /\ users' = r.users
       /\ KeepTokens(r, keep)
    /\ UNCHANGED <<env, tokenVersions, now, conc>>

\* the GraphQL mutation login, on the AuthService of the request's context
GraphqlLoginResponse(input) == login(env, users, NewMap, input, now)

\* what the resolver returns, or the Error it throws
GraphqlLoginReply(input) ==
    LET r == GraphqlLoginResponse(input) IN
    IF r.err = "" THEN [data |-> r.val]
    ELSE [error |-> <<"Login failed: ", r.err>>]

GraphqlLogin(input, keep) ==
    /\ LET r == GraphqlLoginResponse(input) IN
       /\ users' = r.users
       /\ KeepTokens(r, keep)
    /\ UNCHANGED <<env, tokenVersions, now, conc>>

RestRefreshResponse(token) == refreshToken(env, users, tokenVersions, token, now)

\* POST /auth/refresh: nothing is stored
RestRefresh(token) ==
    /\ RestRefreshResponse(token).err \in {"", MsgInvalidRefresh}
    /\ UNCHANGED vars

\* fastify.authenticate on a protected route, on the AuthService of
\* authPlugin: {payload} is attached to the request, {} is answered with 401
AuthenticateResponse(token, storeFails) ==
    validateAccessToken(env, users, token, now, storeFails)

Authenticate(token, storeFails) ==
    /\ Cardinality(AuthenticateResponse(token, storeFails)) <= 1
    /\ UNCHANGED vars

\* what GET /auth/profile sends: fastify.authenticate, then the handler
ProfileResponse(token) ==
    LET auth == AuthenticateResponse(token, FALSE) IN
    IF auth = {} THEN [status |-> 401, success |-> FALSE]
    ELSE
    LET found == getUserById(users, (CHOOSE p \in auth : TRUE).userId) IN
    IF found = {}
    THEN [status |-> 404, success |-> FALSE, error |-> "User not found"]
    ELSE LET user == CHOOSE u \in found : TRUE IN
         [status |-> 200, success |-> TRUE,
          data |-> [stats |-> "stats"] @@
                   [f \in DOMAIN user \ {"password", "emailVerificationToken",
                                         "passwordResetToken"} |-> user[f]]]

\* GET /auth/profile: nothing is stored
GetProfile(token) ==
    /\ ProfileResponse(token).status \in {200, 401, 404}
    /\ UNCHANGED vars

\* POST /auth/logout: fastify.authenticate, then the handler
RestLogout(token) ==
    /\ LET auth == AuthenticateResponse(token, FALSE) IN
       IF auth = {}
       THEN UNCHANGED <<tokenVersions, revoked>>
       ELSE LET userId == (CHOOSE p \in auth : TRUE).userId IN
            /\ getTokenVersion(tokenVersions, userId) < MaxGen
            /\ tokenVersions' = logout(tokenVersions, userId)
            /\ revoked' = revoked \cup
                   {h \in held : IsRefreshIssue(h) /\ h.payload.userId = userId}
    /\ UNCHANGED <<env, users, now, held, conc>>

\* an administrator deactivates an identity in the store
Deactivate(id) ==
    /\ \E u \in users : u.id = id /\ u.isActive
    /\ users' = updateUser(users, id, [isActive |-> FALSE])
    /\ UNCHANGED <<env, tokenVersions, now, held, revoked, conc>>

\* an administrator changes the role of an identity in the store
ChangeRole(id, role) ==
    /\ \E u \in users : u.id = id /\ u.role # role
    /\ users' = updateUser(users, id, [role |-> role])
    /\ UNCHANGED <<env, tokenVersions, now, held, revoked, conc>>

\* an identity's email is changed in the store to one that is not in use
ChangeEmail(id, email) ==
    /\ \E u \in users : u.id = id
    /\ getUserByEmail(users, email) = {}
    /\ users' = updateUser(users, id, [email |-> email])
    /\ UNCHANGED <<env, tokenVersions, now, held, revoked, conc>>

Tick ==
    /\ now + TickStep <= MaxTicks * TickStep
    /\ now' = now + TickStep
    /\ UNCHANGED <<env, users, tokenVersions, held, revoked, conc>>

Alice == [email |-> "a@x.com", username |-> "alice"]

RegBody(i, p) == [email |-> i.email, username |-> i.username, password |-> p]
Credentials(e, p) == [email |-> e, password |-> p]

\* one identity, every entry point
Next ==
    \/ \E p \in Passwords, k \in BOOLEAN : RestRegister(RegBody(Alice, p), k)
    \/ \E k \in BOOLEAN : GraphqlRegister(RegBody(Alice, Weak), k)
    \/ \E e \in Emails, p \in LoginPasswords, k \in BOOLEAN :
           RestLogin(Credentials(e, p), k)
    \/ \E e \in Emails, p \in LoginPasswords, k \in BOOLEAN :
           GraphqlLogin(Credentials(e, p), k)
    \/ \E t \in Presentable : RestRefresh(t)
    \/ \E t \in Presentable, f \in BOOLEAN : Authenticate(t, f)
    \/ \E t \in Presentable : GetProfile(t)
    \/ \E t \in Presentable : RestLogout(t)
    \/ \E id \in IdSet : Deactivate(id)
    \/ Tick

Spec == Init /\ [][Next]_vars

\* two identities: registration, login and logout
NextStore ==
    \/ \E i \in RegIdentities, p \in Passwords, k \in BOOLEAN :
           RestRegister(RegBody(i, p), k)
    \/ \E i \in RegIdentities, k \in BOOLEAN : GraphqlRegister(RegBody(i, Weak), k)
    \/ \E b \in {Credentials(e, p) : e \in Emails, p \in LoginPasswords},
          k \in BOOLEAN : RestLogin(b, k)
    \/ \E t \in Presentable : RestLogout(t)

SpecStore == Init /\ [][NextStore]_vars

\* one identity whose role and email change between login and refresh
NextRoles ==
    \/ \E k \in BOOLEAN : RestRegister(RegBody(Alice, Strong), k)
    \/ \E e \in Emails, p \in {Strong, Weak}, k \in BOOLEAN :
           RestLogin(Credentials(e, p), k)
    \/ \E id \in IdSet, role \in {"user", "admin"} : ChangeRole(id, role)
    \/ \E id \in IdSet, e \in Emails : ChangeEmail(id, e)
    \/ \E id \in IdSet : Deactivate(id)
    \/ \E t \in Presentable : RestRefresh(t)

SpecRoles == Init /\ [][NextRoles]_vars

-----------------------------------------------------------------------------
(* Overlapping requests.  A handler runs without interruption from one     *)
(* await to the next; a step below is one such stretch.  inflight holds,   *)
(* for each suspended request, where it resumes and its local values.      *)

\* incrementLoginAttempts up to its await of getUserById: the value of the
\* local attempts, {} when the user is not found
incrementLoginAttemptsRead(docs, id) ==
    {u.loginAttempts + 1 : u \in getUserById(docs, id)}

\* incrementLoginAttempts from updateDoc on, with the local attempts
incrementLoginAttemptsWrite(docs, id, attempts, t) ==
    updateUser(docs, id,
               IF attempts >= maxAttempts
               THEN [loginAttempts |-> attempts, lockUntil |-> <<t + lockTime>>]
               ELSE [loginAttempts |-> attempts])

\* mutant: the generation is written from the value seen when the request
\* was admitted
LogoutCall_StaleRead(tv, req) ==
    [k \in DOMAIN tv \cup {req.userId} |->
        IF k = req.userId THEN req.n + 1 ELSE tv[k]]

\* the handler of POST /auth/logout for the admitted request req
LogoutCall(tv, req) == logout(tv, req.userId)

\* POST /auth/logout up to the end of its preHandler: fastify.authenticate
\* has attached the payload and the handler is about to run
LogoutAuth(token, s) ==
    /\ inflight[s] = Idle
    /\ LET auth == AuthenticateResponse(token, FALSE) IN
       /\ auth # {}
       /\ LET userId == (CHOOSE p \in auth : TRUE).userId IN
          /\ getTokenVersion(tokenVersions, userId)
               + Cardinality({x \in Slots : /\ inflight[x].kind = "logout"
                                            /\ inflight[x].userId = userId})
               < MaxGen
          /\ inflight' = [inflight EXCEPT ![s] =
                 [kind |-> "logout", userId |-> userId,
                  n |-> getTokenVersion(tokenVersions, userId)]]
    /\ UNCHANGED <<env, users, tokenVersions, now, held, revoked, bumps, failed, indexes>>

\* the handler of POST /auth/logout: authService.logout and the reply
LogoutHandler(s) ==
    /\ inflight[s].kind = "logout"
    /\ LET userId == inflight[s].userId IN
       /\ tokenVersions' = LogoutCall(tokenVersions, inflight[s])
       /\ bumps' = [bumps EXCEPT ![userId] = @ + 1]
       /\ revoked' = revoked \cup
              {h \in held : IsRefreshIssue(h) /\ h.payload.userId = userId}
    /\ inflight' = [inflight EXCEPT ![s] = Idle]
    /\ UNCHANGED <<env, users, now, held, failed, indexes>>

\* POST /auth/login with a wrong password, up to incrementLoginAttempts: the
\* user is found, not locked and active, and comparePassword gave false
LoginCheckFails(body, s) ==
    /\ inflight[s] = Idle
    /\ \E u \in getUserByEmail(users, body.email) :
           /\ ~isAccountLocked(users, u, now).locked
           /\ u.isActive
           /\ ~comparePassword(body.password, u.password)
           /\ failed[u.id] < MaxFailedChecks
           /\ users' = isAccountLocked(users, u, now).users
           /\ failed' = [failed EXCEPT ![u.id] = @ + 1]
           /\ inflight' = [inflight EXCEPT ![s] =
                  [kind |-> "login_read", userId |-> u.id, n |-> 0]]
    /\ UNCHANGED <<env, tokenVersions, now, held, revoked, bumps, indexes>>

\* incrementLoginAttempts: getUserById has answered
LoginIncrementRead(s) ==
    /\ inflight[s].kind = "login_read"
    /\ LET got == incrementLoginAttemptsRead(users, inflight[s].userId) IN
       inflight' = [inflight EXCEPT ![s] =
           IF got = {} THEN Idle
           ELSE [kind |-> "login_write", userId |-> inflight[s].userId,
                 n |-> CHOOSE a \in got : TRUE]]
    /\ UNCHANGED <<env, users, tokenVersions, now, held, revoked, bumps, failed, indexes>>

\* incrementLoginAttempts: updateUser, then login throws and the reply is sent
LoginIncrementWrite(s) ==
    /\ inflight[s].kind = "login_write"
    /\ users' = incrementLoginAttemptsWrite(users, inflight[s].userId,
                                            inflight[s].n, now)
    /\ inflight' = [inflight EXCEPT ![s] = Idle]
    /\ UNCHANGED <<env, tokenVersions, now, held, revoked, bumps, failed, indexes>>

Bob == [email |-> "b@x.com", username |-> "bob"]

\* two identities, overlapping logouts
NextLogouts ==
    \/ \E i \in {Alice, Bob}, k \in BOOLEAN : RestRegister(RegBody(i, Strong), k)
    \/ \E b \in {Credentials(e, Strong) : e \in Emails}, k \in BOOLEAN :
           RestLogin(b, k)
    \/ \E t \in Presentable, s \in Slots : LogoutAuth(t, s)
    \/ \E s \in Slots : LogoutHandler(s)

SpecLogouts == Init /\ [][NextLogouts]_vars

\* two identities, overlapping failed logins
NextLogins ==
    \/ \E i \in {Alice, Bob} : RestRegister(RegBody(i, Strong), FALSE)
    \/ \E e \in Emails, s \in Slots : LoginCheckFails(Credentials(e, Weak), s)
    \/ \E s \in Slots : LoginIncrementRead(s)
    \/ \E s \in Slots : LoginIncrementWrite(s)

SpecLogins == Init /\ [][NextLogins]_vars

\* the message of the MongoServerError insertOne rejects with when a unique
\* index has the key
E11000(index) == <<"E11000 duplicate key error collection: users index: ", index>>

\* one createIndex of ensureIndexes, in its order: <<name>> of the index that
\* is built next, <<>> when both are built or the build is refused because
\* two documents share the key
ensureIndexes(docs, built) ==
    IF "email_1" \notin built
    THEN IF \A u \in docs, v \in docs : u.email = v.email => u = v
         THEN <<"email_1">> ELSE <<>>
    ELSE IF "username_1" \notin built
    THEN IF \A u \in docs, v \in docs : u.username = v.username => u = v
         THEN <<"username_1">> ELSE <<>>
    ELSE <<>>

\* createUser up to its await of findOne: the message thrown, "" when no
\* document has the email or the username
createUserFind(docs, userData) ==
    LET matches == {u \in docs : \/ u.email = userData.email
                                 \/ u.username = userData.username}
        existingUser == CHOOSE u \in matches :
                            \A v \in matches : IdIndex(u.id) <= IdIndex(v.id)
    IN  IF matches # {} /\ existingUser.email = userData.email
        THEN "User with this email already exists"
        ELSE IF matches # {} /\ existingUser.username = userData.username
        THEN "User with this username already exists"
        ELSE ""

\* createUser from hashPassword on: insertOne under the indexes built
createUserInsert(docs, built, userData) ==
    LET user == [id |-> NextId(docs),
                 email |-> userData.email,
                 username |-> userData.username,
                 password |-> hashPassword(userData.password),
                 role |-> "user",
                 isActive |-> TRUE,
                 emailVerificationToken |-> "email-verification-token",
                 loginAttempts |-> 0,
                 lockUntil |-> <<>>,
                 lastLoginAt |-> <<>>]
    IN  IF "email_1" \in built /\ \E u \in docs : u.email = user.email
        THEN [err |-> E11000("email_1"), users |-> docs, user |-> {}]
        ELSE IF "username_1" \in built /\ \E u \in docs : u.username = user.username
        THEN [err |-> E11000("username_1"), users |-> docs, user |-> {}]
        ELSE [err |-> "", users |-> docs \cup {user}, user |-> {user}]

\* ensureIndexes, started by the constructor of UserService and not awaited:
\* one of its createIndex calls completes
EnsureIndexes ==
    /\ ensureIndexes(users, indexes) # <<>>
    /\ indexes' = indexes \cup {ensureIndexes(users, indexes)[1]}
    /\ UNCHANGED <<env, users, tokenVersions, now, held, revoked, inflight,
                   bumps, failed>>

\* POST /auth/register up to the findOne of createUser: the request is
\* answered when a document is found, and goes on to insertOne otherwise
RegisterFind(body, s) ==
    /\ inflight[s] = Idle
    /\ RegisterBodySchema(body) /\ CreateUserSchemaPassword(body.password)
    /\ inflight' = [inflight EXCEPT ![s] =
           IF createUserFind(users, body) # "" THEN Idle
           ELSE [kind |-> "register_insert", userId |-> "", n |-> 0,
                 userData |-> body]]
    /\ UNCHANGED <<env, users, tokenVersions, now, held, revoked, bumps, failed,
                   indexes>>

\* what createUser gives the suspended registration of slot s when it resumes
RegisterInsertResponse(s) ==
    createUserInsert(users, indexes, inflight[s].userData)

\* the insertOne of createUser, then register and the reply
RegisterInsert(s) ==
    /\ inflight[s].kind = "register_insert"
    /\ Cardinality(users) < Len(Ids)
    /\ users' = RegisterInsertResponse(s).users
    /\ inflight' = [inflight EXCEPT ![s] = Idle]
    /\ UNCHANGED <<env, tokenVersions, now, held, revoked, bumps, failed, indexes>>

\* overlapping registrations while the indexes are being built
NextRegisters ==
    \/ \E i \in RegIdentities, s \in Slots : RegisterFind(RegBody(i, Strong), s)
    \/ \E s \in Slots : RegisterInsert(s)
    \/ EnsureIndexes

SpecRegisters == Init /\ [][NextRegisters]_vars

\* login from the resolved comparePassword(...) = true on, with its local
\* user: resetLoginAttempts, then the tokens
loginAfterCompare(e, docs, tv, user, t) ==
    [err |-> "", val |-> AuthResponse(e, tv, user, t),
     users |-> resetLoginAttempts(docs, user.id, t)]

\* POST /auth/login with the right password, up to resetLoginAttempts: the
\* user is found, not locked and active, and comparePassword gave true
LoginCheckPasses(body, s) ==
    /\ inflight[s] = Idle
    /\ \E u \in getUserByEmail(users, body.email) :
           /\ ~isAccountLocked(users, u, now).locked
           /\ u.isActive
           /\ comparePassword(body.password, u.password)
           /\ users' = isAccountLocked(users, u, now).users
           /\ inflight' = [inflight EXCEPT ![s] =
                  [kind |-> "login_reset", userId |-> u.id, n |-> 0,
                   user |-> u]]
    /\ UNCHANGED <<env, tokenVersions, now, held, revoked, bumps, failed, indexes>>

\* what login returns to the suspended request of slot s when it resumes
LoginResetResponse(s) ==
    loginAfterCompare(env, users, tokenVersions, inflight[s].user, now)

\* resetLoginAttempts, then the tokens are made and the reply is sent
LoginReset(s) ==
    /\ inflight[s].kind = "login_reset"
    /\ users' = LoginResetResponse(s).users
    /\ inflight' = [inflight EXCEPT ![s] = Idle]
    /\ UNCHANGED <<env, tokenVersions, now, held, revoked, bumps, failed, indexes>>

\* one identity, overlapping logins with the right and with a wrong password
NextLockRace ==
    \/ RestRegister(RegBody(Alice, Strong), FALSE)
    \/ \E s \in Slots : LoginCheckFails(Credentials(Alice.email, Weak), s)
    \/ \E s \in Slots : LoginIncrementRead(s)
    \/ \E s \in Slots : LoginIncrementWrite(s)
    \/ \E s \in Slots : LoginCheckPasses(Credentials(Alice.email, Strong), s)
    \/ \E s \in Slots : LoginReset(s)
    \/ Tick

SpecLockRace == Init /\ [][NextLockRace]_vars

-----------------------------------------------------------------------------
(* Collaborator failures: the audit sink (logger.securityEvent), the store *)
(* and the hasher throwing.  sinkFails: every securityEvent call throws.   *)

SinkError == "audit sink write failed"

\* [err, users]: incrementLoginAttempts, which emits account_locked before
\* it calls updateUser
incrementLoginAttemptsWithSink(docs, id, t, sinkFails) ==
    LET got == incrementLoginAttemptsRead(docs, id) IN
    IF got = {} THEN [err |-> "", users |-> docs]
    ELSE LET attempts == CHOOSE a \in got : TRUE IN
         IF attempts >= maxAttempts /\ sinkFails
         THEN [err |-> SinkError, users |-> docs]
         ELSE [err |-> "",
               users |-> incrementLoginAttemptsWrite(docs, id, attempts, t)]

\* login with its securityEvent calls; an Error they throw is caught by
\* login's catch and thrown again
loginWithSink(e, docs, tv, credentials, t, sinkFails) ==
    LET found == getUserByEmail(docs, credentials.email) IN
    IF found = {}
    THEN [err |-> IF sinkFails THEN SinkError ELSE MsgNoUser,
          val |-> <<>>, users |-> docs]
    ELSE
    LET user == CHOOSE u \in found : TRUE
        lk == isAccountLocked(docs, user, t)
    IN  IF lk.locked
        THEN [err |-> IF sinkFails THEN SinkError ELSE MsgLocked,
              val |-> <<>>, users |-> lk.users]
        ELSE IF ~user.isActive
        THEN [err |-> IF sinkFails THEN SinkError ELSE MsgInactive,
              val |-> <<>>, users |-> lk.users]
        ELSE IF ~comparePassword(credentials.password, user.password)
        THEN LET inc == incrementLoginAttemptsWithSink(lk.users, user.id, t,
                                                       sinkFails)
             IN  [err |-> IF inc.err # "" THEN inc.err
                          ELSE IF sinkFails THEN SinkError ELSE MsgBadPassword,
                  val |-> <<>>, users |-> inc.users]
        ELSE [err |-> "", val |-> AuthResponse(e, tv, user, t),
              users |-> resetLoginAttempts(lk.users, user.id, t)]

\* messages of errors the store driver or bcrypt throw
StoreErrors == {"connect ECONNREFUSED 10.0.0.5:27017"}

\* login when getUserByEmail rejects with storeError: the catch throws it again
loginStoreFails(docs, storeError) ==
    [err |-> storeError, val |-> <<>>, users |-> docs]

\* register when createUser's findOne or hashPassword rejects: the catches of
\* createUser and of register throw it again
registerStoreFails(docs, storeError) ==
    [err |-> storeError, val |-> <<>>, users |-> docs]

\* refreshToken when getUserById rejects: the catch throws its own Error
refreshTokenStoreFails(storeError) ==
    [err |-> MsgInvalidRefresh, val |-> <<>>]

\* what the handler of POST /auth/login sends for the outcome r of login
LoginReplyOf(r) ==
    IF r.err = ""
    THEN [status |-> 200, success |-> TRUE, data |-> r.val]
    ELSE [status |-> 401, success |-> FALSE, error |-> r.err,
          code |-> "LOGIN_FAILED"]

\* what the handler of POST /auth/register sends for the outcome r of register
RegisterReplyOf(r) ==
    IF r.err = ""
    THEN [status |-> 201, success |-> TRUE, data |-> r.val]
    ELSE [status |-> 400, success |-> FALSE, error |-> r.err,
          code |-> "REGISTRATION_FAILED"]

\* what the handler of POST /auth/refresh sends for the outcome r of refreshToken
RefreshReplyOf(r) ==
    IF r.err = ""
    THEN [status |-> 200, success |-> TRUE, data |-> r.val]
    ELSE [status |-> 401, success |-> FALSE, error |-> "Invalid refresh token",
          code |-> "INVALID_REFRESH_TOKEN"]

-----------------------------------------------------------------------------
(* Properties *)

LoginBodies == {Credentials(e, p) : e \in Emails, p \in LoginPasswords}

\* the document with this id after a request, in the collection docs
DocOf(docs, id) == CHOOSE u \in docs : u.id = id

CurrentlyLocked(u) == u.lockUntil # <<>> /\ u.lockUntil[1] > now

\* a login step with these credentials, through either entry point
LoginStep(b) == \E k \in BOOLEAN : RestLogin(b, k) \/ GraphqlLogin(b, k)

\* C1: a refresh token that register or login issued for an identity before a
\* logout of that identity is rejected by refresh with "Invalid refresh
\* token", in every state after that logout, whatever requests came between.
C1_RevokedStaysRejected ==
    \A t \in revoked :
        /\ RestRefreshResponse(t).err = "Invalid refresh token"
        /\ t.payload.tokenVersion < getTokenVersion(tokenVersions, t.payload.userId)

\* a held refresh token is revoked, its owner is active and has logged in
\* again since, and the token still passes the signature check
C1_Witness ==
    \E t \in revoked : \E u \in users :
        /\ u.id = t.payload.userId /\ u.isActive
        /\ u.lastLoginAt # <<>> /\ u.lastLoginAt[1] > t.payload.iat
        /\ verifyRefreshToken(env, t, now) # {}

\* C2 (state part): a successful login returns a refresh token stamped with
\* the identity's current generation; refresh with that token succeeds and
\* returns a fresh access token and the expiresIn that login returned.
C2_LoginTokenRefreshes ==
    \A b \in LoginBodies :
        LET r == RestLoginResponse(b) IN
        r.err = "" =>
            LET tok == r.val.refreshToken
                rr == refreshToken(env, r.users, tokenVersions, tok, now)
            IN  /\ tok.payload.tokenVersion =
                       getTokenVersion(tokenVersions, tok.payload.userId)
                /\ rr.err = ""
                /\ rr.val.expiresIn = r.val.expiresIn
                /\ rr.val.accessToken.payload.userId = tok.payload.userId
                /\ rr.val.accessToken.payload.iat = now
                /\ verifyAccessToken(env, rr.val.accessToken, now) # {}

\* C2 (step part): a logout of an identity at generation G leaves it at G + 1.
C2_LogoutStep ==
    \A t \in Presentable :
        (RestLogout(t) /\ AuthenticateResponse(t, FALSE) # {}) =>
            LET id == (CHOOSE p \in AuthenticateResponse(t, FALSE) : TRUE).userId IN
            getTokenVersion(tokenVersions', id) = getTokenVersion(tokenVersions, id) + 1

\* C2: an identity at generation G that is logged out and then logs in with
\* the correct password gets a refresh token of generation G + 1, and refresh
\* with it succeeds, with a fresh access token and login's expiresIn.
C2_ReLoginAfterLogout == [][C2_LogoutStep]_vars /\ []C2_LoginTokenRefreshes

\* a refresh token of a generation above 0, which only a login after a logout
\* issues, is held and refresh accepts it
C2_Witness ==
    \E h \in held :
        /\ IsRefreshIssue(h) /\ h.payload.tokenVersion >= 1
        /\ RestRefreshResponse(h).err = ""

\* C3 (step part): a wrong password for an active identity without a lock and
\* with a failed attempts leaves it with a + 1 attempts; it stays without a
\* lock while a + 1 < 5, and is locked until now + 30 minutes otherwise.
C3_FailedLoginStep ==
    \A b \in LoginBodies : \A u \in users :
        (/\ LoginStep(b)
         /\ u.email = b.email /\ u.isActive /\ u.lockUntil = <<>>
         /\ ~comparePassword(b.password, u.password))
        => LET v == DocOf(users', u.id) IN
           /\ v.loginAttempts = u.loginAttempts + 1
           /\ v.lockUntil = IF u.loginAttempts + 1 < 5 THEN <<>> ELSE <<now + 30>>

\* C3 (state part): while lockUntil is in the future a login is answered with
\* the locked-account error and changes nothing.
C3_LockedLogin ==
    \A b \in LoginBodies : \A u \in users :
        (u.email = b.email /\ CurrentlyLocked(u)) =>
            /\ RestLoginResponse(b).err =
                 "Account is temporarily locked due to too many failed login attempts"
            /\ RestLoginResponse(b).users = users

\* C3: from 0 failed attempts, four wrong passwords leave the identity
\* unlocked with loginAttempts = 4; the fifth sets lockUntil to 30 minutes
\* after it; a sixth login inside the lock window fails as locked and leaves
\* loginAttempts and lockUntil as they are.
C3_LockoutThreshold == [][C3_FailedLoginStep]_vars /\ []C3_LockedLogin

\* the fifth failure has just locked an identity
C3_Witness ==
    \E u \in users : u.loginAttempts = 5 /\ u.lockUntil = <<now + 30>>

\* four failures have left an identity unlocked
C3_WitnessFour ==
    \E u \in users : u.loginAttempts = 4 /\ u.lockUntil = <<>>

\* C4: a login for an active identity whose lockUntil is at or before the
\* current time first resets it to loginAttempts = 0 without lockUntil and
\* then evaluates the attempt: the correct password succeeds, a wrong one
\* leaves the identity unlocked with loginAttempts = 1.
C4_LazyUnlock ==
    \A b \in LoginBodies : \A u \in users :
        (/\ u.email = b.email /\ u.isActive
         /\ u.lockUntil # <<>> /\ u.lockUntil[1] <= now)
        => LET r == RestLoginResponse(b)
               v == DocOf(r.users, u.id)
           IN  IF comparePassword(b.password, u.password)
               THEN /\ r.err = ""
                    /\ v.loginAttempts = 0 /\ v.lockUntil = <<>>
               ELSE /\ r.err = "Invalid email or password"
                    /\ v.loginAttempts = 1 /\ v.lockUntil = <<>>

\* an active identity's lock window has elapsed and it has not logged in since
C4_Witness ==
    \E u \in users :
        u.isActive /\ u.lockUntil # <<>> /\ u.lockUntil[1] < now

\* the lock window ends exactly now
C4_WitnessAt ==
    \E u \in users :
        u.isActive /\ u.lockUntil # <<>> /\ u.lockUntil[1] = now

\* C5: a login with an email of no identity and a login with a wrong password
\* for an active identity that is not locked get the same reply (status, code
\* and message), whatever the number of failed attempts before, the attempt
\* that trips the lock included.
C5_EnumerationResistance ==
    \A b1 \in LoginBodies, b2 \in LoginBodies :
        (/\ getUserByEmail(users, b1.email) = {}
         /\ \E u \in users : /\ u.email = b2.email /\ u.isActive
                             /\ ~CurrentlyLocked(u)
                             /\ ~comparePassword(b2.password, u.password))
        => /\ RestLoginReply(b1) = RestLoginReply(b2)
           /\ GraphqlLoginReply(b1) = GraphqlLoginReply(b2)
           /\ RestLoginReply(b1).status = 401

\* an active identity is one wrong password away from the lock while another
\* email is unknown
C5_Witness ==
    /\ \E u \in users : u.isActive /\ u.loginAttempts = 4 /\ ~CurrentlyLocked(u)
    /\ \E e \in Emails : getUserByEmail(users, e) = {}

\* C6: an access token verifies while it is younger than the access TTL of 15
\* minutes and is rejected, also by validateAccessToken, once more than 15
\* minutes have passed since it was issued.
C6_AccessTokenExpires ==
    \A t \in held :
        ~IsRefreshIssue(t) =>
            IF now > t.payload.iat + 15
            THEN /\ verifyAccessToken(env, t, now) = {}
                 /\ AuthenticateResponse(t, FALSE) = {}
            ELSE verifyAccessToken(env, t, now) = {t.payload}

\* C7: verifyAccessToken and validateAccessToken reject every refresh token,
\* verifyRefreshToken and refresh reject every access token, whatever the two
\* secrets are.
C7_CrossContextRejected ==
    \A t \in held :
        IF IsRefreshIssue(t)
        THEN /\ verifyAccessToken(env, t, now) = {}
             /\ AuthenticateResponse(t, FALSE) = {}
        ELSE /\ verifyRefreshToken(env, t, now) = {}
             /\ RestRefreshResponse(t).err # ""

\* C8: validateAccessToken returns the token's claims exactly when the token
\* verifies as an access token, the store answers, and the identity of its
\* userId is in the store with isActive true; otherwise it returns null.
C8_ValidateIff ==
    \A t \in Presentable, f \in BOOLEAN :
        AuthenticateResponse(t, f) =
            IF /\ verifyAccessToken(env, t, now) # {}
               /\ ~f
               /\ \E u \in users : u.id = t.payload.userId /\ u.isActive
            THEN {t.payload} ELSE {}

\* a held access token verifies but its identity was deactivated after it
\* was issued, and validation returns null
C8_Witness ==
    \E t \in held :
        /\ ~IsRefreshIssue(t)
        /\ verifyAccessToken(env, t, now) # {}
        /\ \E u \in users : u.id = t.payload.userId /\ ~u.isActive
        /\ AuthenticateResponse(t, FALSE) = {}

RegBodies == {RegBody(i, p) : i \in RegIdentities, p \in Passwords}

\* what C9 asks of the outcome r of a register call with body b
RegisterOutcome(b, r) ==
    IF \A u \in users : u.email # b.email /\ u.username # b.username
    THEN /\ r.err = ""
         /\ \E v \in r.users :
                /\ v.id \notin {u.id : u \in users}
                /\ r.users = users \cup {v}
                /\ v.email = b.email /\ v.username = b.username
                /\ v.role = "user" /\ v.isActive
                /\ v.loginAttempts = 0 /\ v.lockUntil = <<>>
                /\ comparePassword(b.password, v.password)
                /\ r.val.accessToken.payload.userId = v.id
                /\ r.val.refreshToken.payload.userId = v.id
                /\ r.val.refreshToken.payload.tokenVersion = 0
         /\ verifyAccessToken(env, r.val.accessToken, now) # {}
         /\ verifyRefreshToken(env, r.val.refreshToken, now) # {}
    ELSE /\ r.err \in {"User with this email already exists",
                       "User with this username already exists"}
         /\ r.users = users
         /\ DOMAIN r.val = {}

\* C9: register with an email and a username that no identity has creates
\* exactly one identity (role user, active, 0 attempts, no lock) and returns an
\* access token and a refresh token of generation 0; with an email or a
\* username that is taken it fails as a duplicate, leaves the store as it is
\* and returns no tokens.  Through the REST route (for a body that passes
\* validation) and through the GraphQL mutation.
C9_Register ==
    \A b \in RegBodies :
        /\ RegisterOutcome(b, register(env, users, tokenVersions, b, now))
        /\ CreateUserSchemaPassword(b.password)
               => RegisterOutcome(b, RestRegisterResponse(b))
        /\ RegisterOutcome(b, GraphqlRegisterResponse(b))

\* two identities are stored, the second registered with generation 0 after
\* the first was logged out, and its tokens are held
C9_Witness ==
    /\ Cardinality(users) = 2
    /\ getTokenVersion(tokenVersions, "u1") >= 1
    /\ \E h \in held : /\ IsRefreshIssue(h) /\ h.payload.userId = "u2"
                       /\ h.payload.tokenVersion = 0
                       /\ \A u \in users :
                              u.id = "u2" => u.lastLoginAt = <<>>

\* the registration format policy: length at least 8, a lowercase letter, an
\* uppercase letter, a digit and a special character
MeetsFormatPolicy(password) ==
    /\ Len(password) >= 8
    /\ Chars(password) \cap Lower # {}
    /\ Chars(password) \cap Upper # {}
    /\ Chars(password) \cap Digit # {}
    /\ Chars(password) \cap Special # {}

\* C10: a registration whose password does not meet the format policy is
\* rejected and creates no identity, through the REST route and through the
\* GraphQL mutation: no stored identity has a password that fails the policy.
C10_PolicyAtEveryEntryPoint ==
    \A u \in users : MeetsFormatPolicy(u.password[2])

\* C11 (step part): a login step with the right password for an active
\* identity that is not currently locked leaves it with loginAttempts = 0, no
\* lockUntil and lastLoginAt = the time of the login, whatever it had before.
C11_SuccessfulLoginStep ==
    \A b \in LoginBodies : \A u \in users :
        (/\ LoginStep(b)
         /\ u.email = b.email /\ u.isActive /\ ~CurrentlyLocked(u)
         /\ comparePassword(b.password, u.password))
        => LET v == DocOf(users', u.id) IN
           /\ v.loginAttempts = 0
           /\ v.lockUntil = <<>>
           /\ v.lastLoginAt = <<now>>
           /\ \A w \in users : w.id # u.id => w \in users'

\* C11 (state part): such a login returns an access token for the identity and
\* a refresh token stamped with its current generation, both of which verify.
C11_SuccessfulLoginTokens ==
    \A b \in LoginBodies : \A u \in users :
        (/\ u.email = b.email /\ u.isActive /\ ~CurrentlyLocked(u)
         /\ comparePassword(b.password, u.password))
        => LET r == RestLoginResponse(b) IN
           /\ r.err = ""
           /\ r.val.accessToken.payload.userId = u.id
           /\ verifyAccessToken(env, r.val.accessToken, now) # {}
           /\ r.val.refreshToken.payload.userId = u.id
           /\ r.val.refreshToken.payload.tokenVersion =
                  getTokenVersion(tokenVersions, u.id)
           /\ verifyRefreshToken(env, r.val.refreshToken, now) # {}

\* C11: a login that succeeds leaves the identity with loginAttempts = 0, no
\* lockUntil and lastLoginAt set to the time of the login, whatever the counter
\* was, and returns an access token and a refresh token of the identity's
\* current generation.
C11_SuccessfulLogin ==
    [][C11_SuccessfulLoginStep]_vars /\ []C11_SuccessfulLoginTokens

\* an identity that had failed attempts and a lock has logged in at a later
\* time: its record is reset and stamped with that time, and the refresh token
\* of that login, of a generation above 0, is held
C11_Witness ==
    \E u \in users : \E h \in held :
        /\ now > 0 /\ u.lastLoginAt = <<now>>
        /\ u.loginAttempts = 0 /\ u.lockUntil = <<>>
        /\ IsRefreshIssue(h) /\ h.payload.userId = u.id
        /\ h.payload.iat = now
        /\ h.payload.tokenVersion = getTokenVersion(tokenVersions, u.id)
        /\ h.payload.tokenVersion >= 1

\* C12 (state part): a successful refresh returns an access token and
\* expiresIn, and nothing else.
C12_RefreshReturnsAccessOnly ==
    \A t \in held :
        LET r == RestRefreshResponse(t) IN
        r.err = "" =>
            /\ DOMAIN r.val = {"accessToken", "expiresIn"}
            /\ ~IsRefreshIssue(r.val.accessToken)
            /\ verifyAccessToken(env, r.val.accessToken, now) # {}

\* C12 (step part): a refresh step changes no identity record and no
\* generation; a refresh token that is accepted stays accepted over every step
\* that leaves its identity's generation as it is and its identity active.
C12_RefreshStep ==
    /\ \A t \in Presentable :
           RestRefresh(t) => /\ users' = users
                             /\ tokenVersions' = tokenVersions
    /\ \A t \in held :
           (/\ RestRefreshResponse(t).err = ""
            /\ getTokenVersion(tokenVersions', t.payload.userId)
                   = getTokenVersion(tokenVersions, t.payload.userId)
            /\ \E u \in users' : u.id = t.payload.userId /\ u.isActive)
           => refreshToken(env', users', tokenVersions', t, now').err = ""

\* C12: refresh does not rotate: it returns only a new access token, leaves
\* every generation and every identity record unchanged, and the same refresh
\* token is accepted again as long as no logout of its identity intervenes
\* and the identity stays active.
C12_RefreshDoesNotRotate ==
    [][C12_RefreshStep]_vars /\ []C12_RefreshReturnsAccessOnly

\* a refresh token issued at time 0 is still accepted 30 minutes or more
\* later, after failed logins for its identity in between
C12_Witness ==
    \E h \in held : \E u \in users :
        /\ IsRefreshIssue(h) /\ h.payload.iat = 0 /\ now >= 30
        /\ u.id = h.payload.userId /\ u.loginAttempts >= 1
        /\ RestRefreshResponse(h).err = ""

\* C13: refresh fails with the invalid-token kind for a token that does not
\* verify or whose tokenVersion is not the current generation, and with
\* another kind, that of an inactive account, for a token that verifies and
\* matches the generation of an identity with isActive = false.
C13_RefreshFailureKinds ==
    \A t \in Presentable :
        LET r == RestRefreshResponse(t)
            matches == /\ verifyRefreshToken(env, t, now) # {}
                       /\ IsRefreshIssue(t)
                       /\ t.payload.tokenVersion =
                              getTokenVersion(tokenVersions, t.payload.userId)
        IN  /\ ~matches => r.err = "Invalid refresh token"
            /\ (matches /\ \E u \in users : u.id = t.payload.userId /\ ~u.isActive)
                   => r.err \notin {"", "Invalid refresh token"}

LogoutIds == IdSet \cup {"never-registered"}

\* C14 (state part): logout of any id, registered or not, gives a registry in
\* which that id's generation is one higher and every other one is unchanged.
C14_LogoutBumpsOne ==
    \A id \in LogoutIds :
        LET tv == logout(tokenVersions, id) IN
        /\ getTokenVersion(tv, id) = getTokenVersion(tokenVersions, id) + 1
        /\ \A o \in LogoutIds \ {id} :
               getTokenVersion(tv, o) = getTokenVersion(tokenVersions, o)

\* C14 (step part): an authenticated logout request stores exactly the
\* registry that logout gives and leaves every identity record as it is.
C14_LogoutStep ==
    \A t \in Presentable :
        (RestLogout(t) /\ AuthenticateResponse(t, FALSE) # {}) =>
            /\ tokenVersions' =
                   logout(tokenVersions,
                          (CHOOSE p \in AuthenticateResponse(t, FALSE) : TRUE).userId)
            /\ users' = users

\* C14: logout(id) has no failure mode: for every id it raises the generation
\* of id by exactly one and leaves every other generation and every identity
\* record unchanged.
C14_LogoutTotal == [][C14_LogoutStep]_vars /\ []C14_LogoutBumpsOne

\* an identity has been logged out twice
C14_Witness ==
    \E u \in users : getTokenVersion(tokenVersions, u.id) = 2

\* C15: after a logout of an identity, every token issued for it before, the
\* access token as well as the refresh token, is rejected: refresh fails for
\* the refresh token and validateAccessToken returns null for the access
\* token that was issued with it.
C15_LogoutInvalidatesAll ==
    \A r \in revoked :
        /\ RestRefreshResponse(r).err # ""
        /\ \A a \in held :
               (/\ ~IsRefreshIssue(a)
                /\ a.payload.userId = r.payload.userId
                /\ a.payload.iat = r.payload.iat)
               => AuthenticateResponse(a, FALSE) = {}

\* C16: when logout requests for one identity overlap, no bump is lost: the
\* generation of every identity equals the number of logout calls completed
\* for it, whatever the other identity's logouts do, and no refresh token
\* issued before one of those logouts is accepted after it.
C16_NoLostBump ==
    /\ \A id \in IdSet : getTokenVersion(tokenVersions, id) = bumps[id]
    /\ \A t \in revoked : RestRefreshResponse(t).err = "Invalid refresh token"

\* two logouts of one identity overlap: one was admitted before the other
\* completed and has not run its handler yet, and a token is revoked
C16_Witness ==
    /\ revoked # {}
    /\ \E s \in Slots :
           /\ inflight[s].kind = "logout"
           /\ inflight[s].n < getTokenVersion(tokenVersions, inflight[s].userId)

\* C17: when wrong-password logins for one identity overlap, no increment is
\* lost: once none of them is in flight, loginAttempts equals the number of
\* password checks that failed, and the identity is locked when that number
\* has reached 5.
C17_NoLostIncrement ==
    \A u \in users :
        (\A s \in Slots : inflight[s].userId # u.id) =>
            /\ u.loginAttempts = failed[u.id]
            /\ failed[u.id] >= 5 => CurrentlyLocked(u)

\* C18 (state part): a login with an email of no identity leaves the
\* collection as it is; a login raises a counter only on a password mismatch
\* for an active identity that is not currently locked, by exactly one, and
\* changes no record of another identity.
C18_OnlyMismatchIncrements ==
    \A b \in LoginBodies :
        \A r \in {RestLoginResponse(b), GraphqlLoginResponse(b)} :
            /\ getUserByEmail(users, b.email) = {} => r.users = users
            /\ \A u \in users :
                   LET v == DocOf(r.users, u.id) IN
                   IF /\ u.email = b.email /\ u.isActive /\ ~CurrentlyLocked(u)
                      /\ ~comparePassword(b.password, u.password)
                   THEN v.loginAttempts =
                            (IF u.lockUntil = <<>> THEN u.loginAttempts ELSE 0) + 1
                   ELSE /\ v.loginAttempts <= u.loginAttempts
                        /\ u.email # b.email => v = u

\* C18 (step part): a login step leaves the registry of generations as it is.
C18_LoginStepKeepsRegistry ==
    \/ tokenVersions' = tokenVersions
    \/ ~\E b \in LoginBodies : LoginStep(b)

\* C18: a login with an unknown email changes no identity record and no
\* registry entry; only a password mismatch on an existing, unlocked, active
\* identity increments a counter, that identity's only, by exactly one.
C18_UnknownEmailFrame ==
    [][C18_LoginStepKeepsRegistry]_vars /\ []C18_OnlyMismatchIncrements

\* of two identities one has three failed attempts and the other none
C18_Witness ==
    /\ Cardinality(users) = 2
    /\ \E u \in users : u.loginAttempts = 3
    /\ \E v \in users : v.loginAttempts = 0 /\ v.lastLoginAt = <<>>

\* C19: while lockUntil is in the future every login for the identity, with
\* the right password or a wrong one, fails as locked, returns no tokens and
\* leaves the record (loginAttempts, lockUntil, lastLoginAt) as it is.
C19_LockedWhateverPassword ==
    \A u \in users : \A p \in LoginPasswords :
        CurrentlyLocked(u) =>
            \A r \in {RestLoginResponse(Credentials(u.email, p)),
                       GraphqlLoginResponse(Credentials(u.email, p))} :
                /\ r.err = "Account is temporarily locked due to too many failed login attempts"
                /\ DOMAIN r.val = {}
                /\ DocOf(r.users, u.id) = u

\* an identity that has logged in before is inside its lock window, 15
\* minutes after the lock was set
C19_Witness ==
    \E u \in users :
        /\ u.lockUntil = <<now + 15>> /\ u.loginAttempts = 5
        /\ u.lastLoginAt # <<>>

\* C20: a login for an identity with isActive = false that is not currently
\* locked fails as deactivated, with the right password or a wrong one,
\* returns no tokens, does not raise loginAttempts and sets no lockUntil.
C20_InactiveLogin ==
    \A u \in users : \A p \in LoginPasswords :
        (~u.isActive /\ ~CurrentlyLocked(u)) =>
            \A r \in {RestLoginResponse(Credentials(u.email, p)),
                       GraphqlLoginResponse(Credentials(u.email, p))} :
                LET v == DocOf(r.users, u.id) IN
                /\ r.err = "Account is deactivated"
                /\ DOMAIN r.val = {}
                /\ v.loginAttempts <= u.loginAttempts
                /\ v.lockUntil = <<>>
                /\ v.lastLoginAt = u.lastLoginAt

\* a deactivated identity with failed attempts on record is not locked
C20_Witness ==
    \E u \in users :
        ~u.isActive /\ ~CurrentlyLocked(u) /\ u.loginAttempts >= 1

\* C21: a securityEvent call that throws changes neither the result nor the
\* stored effect of a login: for every login (unknown email, locked, inactive,
\* wrong password, the fifth wrong password included) the error and the
\* collection are those of the login whose emissions succeed.
C21_EmissionBestEffort ==
    \A u \in users : \A b \in LoginBodies :
        LET ok == loginWithSink(env, users, tokenVersions, b, now, FALSE)
            ko == loginWithSink(env, users, tokenVersions, b, now, TRUE)
        IN  /\ ko.err = ok.err
            /\ ko.users = ok.users

\* the replies of the expected failure kinds of login, register and refresh
\* in this state
ExpectedFailureReplies ==
    {[status |-> x.status, code |-> x.code] :
        x \in {y \in {RestLoginReply(b) : b \in LoginBodies}
                      \cup {RegisterReplyOf(RestRegisterResponse(b)) : b \in RegBodies}
                      \cup {RefreshReplyOf(RestRefreshResponse(t)) : t \in Presentable} :
                  ~y.success}}

\* C22: when the store or the hasher throws during login, register or
\* refresh, the reply is of a kind of its own, distinguishable by status and
\* code from the replies of the expected failure kinds, and its message is
\* not the message of the internal error.
C22_InternalFailureGeneric ==
    \A u \in users : \A e \in StoreErrors :
        \A reply \in {LoginReplyOf(loginStoreFails(users, e)),
                       RegisterReplyOf(registerStoreFails(users, e)),
                       RefreshReplyOf(refreshTokenStoreFails(e))} :
            /\ reply.error # e
            /\ [status |-> reply.status, code |-> reply.code]
                   \notin ExpectedFailureReplies

\* the fields that hold the digest or a one-time secret of the identity
SensitiveFields == {"password", "emailVerificationToken", "passwordResetToken"}

\* the claims a token of this service may carry
TokenClaimNames == {"userId", "email", "role", "tokenVersion", "iat", "iss", "aud"}

\* the success payloads of register and login, over REST and over GraphQL
AuthPayloads ==
    {r.val : r \in {x \in {RestLoginResponse(b) : b \in LoginBodies}
                          \cup {GraphqlLoginResponse(b) : b \in LoginBodies}
                          \cup {RestRegisterResponse(b) : b \in RegBodies}
                          \cup {GraphqlRegisterResponse(b) : b \in RegBodies} :
                      x.err = ""}}

\* C23: the user object of every success payload of register and login, and
\* every profile payload, has no password, emailVerificationToken or
\* passwordResetToken field, and the claim set of every access and refresh
\* token, in a payload or in a client's hands, has only the token claims.
C23_DigestNeverSent ==
    /\ \A v \in AuthPayloads :
           /\ DOMAIN v.user \cap SensitiveFields = {}
           /\ DOMAIN v.accessToken.payload \subseteq TokenClaimNames
           /\ DOMAIN v.refreshToken.payload \subseteq TokenClaimNames
    /\ \A t \in Presentable :
           LET reply == ProfileResponse(t) IN
           reply.status = 200 => DOMAIN reply.data \cap SensitiveFields = {}
    /\ \A t \in held : DOMAIN t.payload \subseteq TokenClaimNames

\* a login has answered a registered identity, whose stored document holds the
\* digest and the verification token, and its profile can be fetched
C23_Witness ==
    /\ \E u \in users :
           /\ u.lastLoginAt # <<>>
           /\ {"password", "emailVerificationToken"} \subseteq DOMAIN u
           /\ \E b \in LoginBodies :
                  RestLoginResponse(b).err = "" /\ b.email = u.email
    /\ \E t \in held : ProfileResponse(t).status = 200

\* a TTL string and the seconds it stands for
TtlCases ==
    {[ttl |-> <<"1","5","m">>, seconds |-> 900],
     [ttl |-> <<"1","m">>, seconds |-> 60],
     [ttl |-> <<"3","0","m">>, seconds |-> 1800],
     [ttl |-> <<"2","h">>, seconds |-> 7200],
     [ttl |-> <<"1","2","h">>, seconds |-> 43200],
     [ttl |-> <<"1","d">>, seconds |-> 86400],
     [ttl |-> <<"7","d">>, seconds |-> 604800]}

\* C24: getAccessTokenExpiryTime gives n*60, n*3600, n*86400 for the TTL
\* strings <n>m, <n>h, <n>d and 900 for the default; register, login and
\* refresh report that value as expiresIn; and an issued access token verifies
\* exactly while fewer than expiresIn seconds have passed since it was issued.
C24_ExpiresInIsLifetime ==
    /\ \A c \in TtlCases :
           getAccessTokenExpiryTime([env EXCEPT !.JWT_ACCESS_EXPIRY = c.ttl])
               = <<c.seconds>>
    /\ getAccessTokenExpiryTime(env) = <<900>>
    /\ \A v \in AuthPayloads : v.expiresIn = getAccessTokenExpiryTime(env)
    /\ \A t \in Presentable :
           RestRefreshResponse(t).err = ""
               => RestRefreshResponse(t).val.expiresIn = getAccessTokenExpiryTime(env)
    /\ \A t \in held :
           ~IsRefreshIssue(t) =>
               (verifyAccessToken(env, t, now) # {}
                    <=> (now - t.payload.iat) * 60 < getAccessTokenExpiryTime(env)[1])

\* C26 (step part): a step never lowers the generation of an id, and a step
\* that changes the registry is a logout.
C26_RegistryStep ==
    \/ tokenVersions' = tokenVersions
    \/ /\ \A id \in LogoutIds :
              getTokenVersion(tokenVersions', id) >= getTokenVersion(tokenVersions, id)
       /\ \E t \in Presentable : RestLogout(t)

\* C26 (state part): an id the registry has no entry for has generation 0.
C26_UnseenIsZero ==
    \A id \in LogoutIds :
        id \notin DOMAIN tokenVersions => getTokenVersion(tokenVersions, id) = 0

\* C26: the generation of every id, registered or not, is 0 at the start, is 0
\* as long as the registry has not seen the id, never decreases and is changed
\* only by logout: register, login, refresh and validateAccessToken leave the
\* registry as it is.
C26_RegistryMonotone ==
    /\ \A id \in LogoutIds : getTokenVersion(tokenVersions, id) = 0
    /\ [][C26_RegistryStep]_vars
    /\ []C26_UnseenIsZero

\* an identity was logged out up to the highest generation and has logged in,
\* with and without success, while another id was never seen
C26_Witness ==
    /\ \E u \in users :
           /\ getTokenVersion(tokenVersions, u.id) = MaxGen
           /\ u.lastLoginAt # <<>>
           /\ u.loginAttempts >= 1
    /\ "never-registered" \notin DOMAIN tokenVersions

\* C27: the refresh token of a successful login, by the REST route or by the
\* GraphQL mutation, carries the generation the refresh route compares
\* against, and the refresh route accepts it.
C27_SingleRegistry ==
    \A b \in LoginBodies :
        \A r \in {RestLoginResponse(b), GraphqlLoginResponse(b)} :
            r.err = ""
            => /\ r.val.refreshToken.payload.tokenVersion
                      = getTokenVersion(tokenVersions, r.val.user.id)
               /\ refreshToken(env, r.users, tokenVersions,
                               r.val.refreshToken, now).err = ""

\* C28: each identity has 0 <= loginAttempts <= 5, and a lockUntil only with
\* loginAttempts >= 5.
C28_LockoutRecord ==
    \A u \in users :
        /\ 0 <= u.loginAttempts
        /\ u.loginAttempts <= 5
        /\ (u.lockUntil # <<>> => u.loginAttempts >= 5)

\* the fifth failure has locked an identity and the lock window has elapsed,
\* the record still being as the failure left it
C28_Witness ==
    \E u \in users :
        /\ u.loginAttempts = 5
        /\ u.lockUntil # <<>>
        /\ u.lockUntil[1] <= now

\* the messages createUser throws for a taken email or username
DuplicateIdentity == {"User with this email already exists",
                      "User with this username already exists"}

\* C25: no two stored identities share an email or a username, and a
\* registration that resumes after another one has stored its email or its
\* username fails with one of the messages of createUser for a duplicate.
C25_IdentityUniqueness ==
    /\ \A u \in users, v \in users :
           (u.email = v.email \/ u.username = v.username) => u = v
    /\ \A s \in Slots :
           inflight[s].kind = "register_insert" =>
               LET userData == inflight[s].userData IN
               (\E u \in users : \/ u.email = userData.email
                                 \/ u.username = userData.username)
                   => RegisterInsertResponse(s).err \in DuplicateIdentity

\* C29: a login that resumes while its identity has a lockUntil in the future
\* returns no tokens and leaves lockUntil and loginAttempts as they are, also
\* when it began before the lock was set.
C29_LockNotBypassed ==
    \A s \in Slots :
        (/\ inflight[s].kind = "login_reset"
         /\ CurrentlyLocked(DocOf(users, inflight[s].userId)))
        => LET r == LoginResetResponse(s)
               before == DocOf(users, inflight[s].userId)
               after == DocOf(r.users, inflight[s].userId)
           IN  /\ r.err # ""
               /\ after.lockUntil = before.lockUntil
               /\ after.loginAttempts = before.loginAttempts

\* C30: the access token of a successful refresh carries the userId of the
\* refresh token presented and the email and the role the store holds for
\* that identity when the refresh is made.
C30_RefreshReadsStore ==
    \A t \in Presentable :
        LET r == RestRefreshResponse(t) IN
        r.err = "" =>
            LET p == r.val.accessToken.payload
                u == DocOf(users, t.payload.userId)
            IN  /\ p.userId = t.payload.userId
                /\ p.email = u.email
                /\ p.role = u.role
                /\ verifyAccessToken(env, r.val.accessToken, now) = {p}

\* a refresh token is accepted while the access token of the same login
\* still carries the email and the role the identity had at that login
C30_Witness ==
    \E t \in held, a \in held :
        /\ RestRefreshResponse(t).err = ""
        /\ ~IsRefreshIssue(a)
        /\ a.payload.userId = t.payload.userId
        /\ a.payload.role # DocOf(users, t.payload.userId).role
        /\ a.payload.email # DocOf(users, t.payload.userId).email

====
